---- MODULE Spec2Model ----
(***************************************************************************)
(* A model of go-plotly's generator: the Renderer that turns the plotly    *)
(* schema into the type graph (typeFile) handed to the templates, and      *)
(* persists the formatted text through a Creator.                          *)
(*                                                                         *)
(*   Spec       WriteLayout over every bounded schema (merge, sort, dedup, *)
(*              axis fix-up)                                               *)
(*   SpecTrace  WriteTrace and WriteConfig over every bounded schema       *)
(*   SpecSink   the Create* operations, step by step, against a Creator    *)
(*              whose Create and Write may fail                            *)
(*   SpecName   cleanName and cleanValue over every bounded raw value      *)
(***************************************************************************)
EXTENDS Integers, Sequences, FiniteSets, TLC

VARIABLES
    schema,     \* r.root.Schema: the parsed schema, read-only after Init
    rendered,   \* the type graph the last successful Write* handed to the templates
    first,      \* of the fields put into that graph's MainType, before any sort,
                \* those that were the first of their Name
    werr,       \* the error the last Write* returned ("nil" when none)
    pc,         \* the position of the Create* operation in progress
    artifact,   \* the artifact that operation creates
    src,        \* its buffer, filled by Write*
    fmtsrc,     \* the result of format.Source
    io,         \* what the operation did to the Creator and to the file it got
    err,        \* the error the operation returned
    sink,       \* the Creator's destinations, by path
    batch,      \* the CreateTraces call in progress, or the last one
    raw,        \* a raw enum or flag value, as its characters
    applied,    \* the function applied to it ("none" before)
    cleaned     \* the result

graphVars == <<rendered, first, werr>>
sinkVars == <<pc, artifact, src, fmtsrc, io, err, sink, batch>>
nameVars == <<raw, applied, cleaned>>
vars == <<schema, rendered, first, werr, pc, artifact, src, fmtsrc, io, err, sink, batch,
          raw, applied, cleaned>>

(***************************************************************************)
(* Bounds of the model.                                                    *)
(***************************************************************************)
\* The largest number of layout attributes the schema declares, counted over
\* all contributors (the layout itself and every trace).
MaxAttrs == 3

\* The largest length of a raw value.
MaxLen == 2

(***************************************************************************)
(* Sequences and strings.                                                  *)
(***************************************************************************)
Range(s) == {s[i] : i \in DOMAIN s}

\* Every order in which a range over the Go map with key set S can visit it.
Orders(S) == {o \in [1..Cardinality(S) -> S] : \A i, j \in DOMAIN o : i # j => o[i] # o[j]}

\* The identifiers of the bounded universe in Go's string order (byte-wise:
\* an upper-case letter sorts before every lower-case one, a digit before both).
IdentOrder ==
    <<"BarBarmode", "BarShape", "Barmode", "Clickmode",
      "ConfigBarmode", "ConfigShape",
      "LayoutBarmode", "LayoutClickmode", "LayoutShape",
      "LayoutXaxis", "LayoutYaxis", "ScatterBarmode", "ScatterShape",
      "Shape", "Title", "Type", "X",
      "XAxis2", "XAxis3", "XAxis4", "XAxis5", "XAxis6", "Xaxis",
      "Y", "YAxis2", "YAxis3", "YAxis4", "YAxis5", "YAxis6", "Yaxis",
      "bar", "pie", "scatter">>

Rank == [s \in Range(IdentOrder) |-> CHOOSE i \in DOMAIN IdentOrder : IdentOrder[i] = s]

\* a < b on Go strings.
StringLess(a, b) == Rank[a] < Rank[b]

\* xstrings.ToCamelCase on the schema keys of the bounded universe.
ToCamelCase(s) ==
    CASE s = "barmode"   -> "Barmode"
      [] s = "clickmode" -> "Clickmode"
      [] s = "shape"     -> "Shape"
      [] s = "title"     -> "Title"
      [] s = "x"         -> "X"
      [] s = "y"         -> "Y"
      [] s = "xaxis"     -> "Xaxis"
      [] s = "yaxis"     -> "Yaxis"
      [] s = "x_axis2"   -> "XAxis2"
      [] s = "bar"       -> "Bar"
      [] s = "pie"       -> "Pie"
      [] s = "scatter"   -> "Scatter"
      [] OTHER           -> s

\* strings.ToLower on the axis labels.
ToLower(s) ==
    CASE s = "X" -> "x"
      [] s = "Y" -> "y"
      [] OTHER   -> s

(***************************************************************************)
(* The schema.  An attribute node carries its schema key, its value type,  *)
(* the raw values of an enumerated or flaglist node, the nested attributes *)
(* of an object node, and its description.                                 *)
(***************************************************************************)
Attr(n, vt, vals, sub, d) ==
    [name |-> n, valType |-> vt, values |-> vals, attrs |-> sub, description |-> d]

TitleAttr == Attr("title", "string", <<>>, {}, "axis title")

\* The attributes a contributor may declare.  "shape" comes in three shapes:
\* two enumerations with overlapping values and a number, so that contributors
\* can disagree about a name; "x_axis2" is the key whose identifier is XAxis2;
\* "ghost" is a name the schema node does not resolve, which parseAttributes
\* answers with an error.
AttrPool ==
    { Attr("shape",     "enumerated", <<"circle", "square">>,   {}, "shape of a"),
      Attr("shape",     "enumerated", <<"square", "triangle">>, {}, "shape of b"),
      Attr("shape",     "number",     <<>>,                     {}, "shape as number"),
      Attr("barmode",   "enumerated", <<"stack", "group">>,     {}, "bar mode"),
      Attr("clickmode", "flaglist",   <<"event", "select">>,    {}, "click mode"),
      Attr("xaxis",     "object",     <<>>,            {TitleAttr}, "x axis"),
      Attr("yaxis",     "object",     <<>>,            {TitleAttr}, "y axis"),
      Attr("x_axis2",   "number",     <<>>,                     {}, "second x"),
      Attr("ghost",     "unresolved", <<>>,                     {}, "") }

\* The Names map of one contributor: at most MaxAttrs attributes, keyed by name.
AttrSets ==
    {S \in SUBSET AttrPool :
        /\ Cardinality(S) <= MaxAttrs
        /\ \A a, b \in S : a.name = b.name => a = b}

TraceNames == {"bar", "scatter"}

(***************************************************************************)
(* The type graph.                                                         *)
(***************************************************************************)
Field(n, j, t, d) == [Name |-> n, JSONName |-> j, Type |-> t, Description |-> d]

EmptyFile(name, description, fields) ==
    [MainType  |-> [Name |-> name, Description |-> description, Fields |-> fields],
     Objects   |-> <<>>,
     Enums     |-> <<>>,
     FlagLists |-> <<>>]

\* valTypeMap: the Go type of a value type.
valTypeMap(vt) ==
    CASE vt = "data_array" -> "interface{}"
      [] vt = "enumerated" -> "NO-TYPE"
      [] vt = "boolean"    -> "Bool"
      [] vt = "number"     -> "float64"
      [] vt = "integer"    -> "int64"
      [] vt = "string"     -> "String"
      [] vt = "color"      -> "Color"
      [] vt = "colorlist"  -> "ColorList"
      [] vt = "colorscale" -> "ColorScale"
      [] vt = "angle"      -> "float64"
      [] vt = "subplotid"  -> "String"
      [] vt = "flaglist"   -> "NO-TYPE"
      [] vt = "any"        -> "interface{}"
      [] vt = "info_array" -> "interface{}"

ValTypes ==
    {"data_array", "enumerated", "boolean", "number", "integer", "string", "color",
     "colorlist", "colorscale", "angle", "subplotid", "flaglist", "any", "info_array"}


(***************************************************************************)
(* typeFile.parseAttributes: one field per attribute, in the order the     *)
(* attributes are visited; an object, an enumeration or a flag list also   *)
(* registers the type it synthesizes, named typePrefix + CamelCase(key).   *)
(***************************************************************************)
\* The order in which the nested attributes of an object node are visited.
NestedOrder(S) == CHOOSE o \in Orders(S) : TRUE

RECURSIVE parseAttributes(_, _, _, _)
parseAttributes(file, namePrefix, typePrefix, attrs) ==
    IF attrs = <<>> THEN [file |-> file, fields |-> <<>>, err |-> FALSE]
    ELSE
      LET a        == Head(attrs)
          typeName == typePrefix \o ToCamelCase(a.name)
          typed    == Field(ToCamelCase(a.name), a.name, typeName, a.description)
          one ==
            CASE a.valType = "object" ->
                   LET sub == parseAttributes(file, typeName, typeName, NestedOrder(a.attrs))
                   IN  [file  |-> [sub.file EXCEPT !.Objects =
                                      Append(@, [Name        |-> typeName,
                                                 Description |-> a.description,
                                                 Fields      |-> sub.fields])],
                        field |-> typed,
                        err   |-> sub.err]
              [] a.valType = "enumerated" ->
                   [file  |-> [file EXCEPT !.Enums =
                                  Append(@, [Name |-> typeName, Values |-> a.values])],
                    field |-> typed,
                    err   |-> FALSE]
              [] a.valType = "flaglist" ->
                   [file  |-> [file EXCEPT !.FlagLists =
                                  Append(@, [Name |-> typeName, Values |-> a.values])],
                    field |-> typed,
                    err   |-> FALSE]
              [] a.valType \in ValTypes ->
                   [file  |-> file,
                    field |-> Field(ToCamelCase(a.name), a.name,
                                    valTypeMap(a.valType), a.description),
                    err   |-> FALSE]
              [] OTHER ->
                   [file |-> file, field |-> typed, err |-> TRUE]
          rest == IF one.err THEN [file |-> one.file, fields |-> <<>>, err |-> TRUE]
                  ELSE parseAttributes(one.file, namePrefix, typePrefix, Tail(attrs))
      IN  [file   |-> rest.file,
           fields |-> IF rest.err THEN <<>> ELSE <<one.field>> \o rest.fields,
           err    |-> rest.err]

(***************************************************************************)
(* sort.Sort over structFields and over the enums: both order by Name.     *)
(* sort.Sort is not stable, so entries of equal Name may end in any order. *)
(***************************************************************************)
Less(a, b) == StringLess(a.Name, b.Name)

RECURSIVE SortFrom(_, _)
SortFrom(s, idx) ==
    IF idx = {} THEN {<<>>}
    ELSE LET least == {i \in idx : \A j \in idx : ~Less(s[j], s[i])}
         IN  UNION {{<<s[i]>> \o r : r \in SortFrom(s, idx \ {i})} : i \in least}

\* Every result sort.Sort(s) may leave in s.
SortOutcomes(s) == SortFrom(s, DOMAIN s)

(***************************************************************************)
(* WriteLayout.                                                            *)
(***************************************************************************)
\* lines 207-213: the traces' layout attributes, folded into the file in the
\* order the range over the trace map visits them; attrOrder[t] is the order
\* in which trace t's attributes are visited.
RECURSIVE ParseTraceLayouts(_, _, _)
ParseTraceLayouts(file, order, attrOrder) ==
    IF order = <<>> THEN [file |-> file, err |-> FALSE]
    ELSE LET name == Head(order)
             got  == parseAttributes(file, ToCamelCase(name), "Layout", attrOrder[name])
         IN  IF got.err THEN [file |-> got.file, err |-> TRUE]
             ELSE ParseTraceLayouts(
                      [got.file EXCEPT !.MainType.Fields = @ \o got.fields],
                      Tail(order), attrOrder)

\* The fields of a list that no earlier field of the list shares its Name with.
FirstOfName(fields) ==
    {fields[i] : i \in {k \in DOMAIN fields :
                           \A j \in 1..(k - 1) : fields[j].Name # fields[k].Name}}

\* "remove duplicate fields": the first field of each Name, in order.
RECURSIVE RemoveDuplicateFields(_)
RemoveDuplicateFields(fields) ==
    IF fields = <<>> THEN <<>>
    ELSE LET n     == Len(fields)
             front == RemoveDuplicateFields(SubSeq(fields, 1, n - 1))
         IN  IF \E i \in DOMAIN front : front[i].Name = fields[n].Name
             THEN front
             ELSE Append(front, fields[n])

\* "merge duplicate enums": an enum whose Name was seen appends its Values to
\* the first enum of that Name.
RECURSIVE MergeDuplicateEnums(_)
MergeDuplicateEnums(enums) ==
    IF enums = <<>> THEN <<>>
    ELSE LET n     == Len(enums)
             front == MergeDuplicateEnums(SubSeq(enums, 1, n - 1))
             enum  == enums[n]
         IN  IF \E i \in DOMAIN front : front[i].Name = enum.Name
             THEN LET previous == CHOOSE i \in DOMAIN front : front[i].Name = enum.Name
                  IN  [front EXCEPT ![previous].Values = @ \o enum.Values]
             ELSE Append(front, enum)

AxisLabels == <<"X", "Y">>
AxisFirst == 2
AxisLimit == 7

\* The field the fix-up appends for axis i of a label.
AxisField(label, i) ==
    Field(label \o "Axis" \o ToString(i),
          ToLower(label) \o "axis" \o ToString(i),
          "Layout" \o label \o "axis",
          label \o " Axis number " \o ToString(i))

\* AddAxes with the loop ending one axis early (i < 6).
AddAxesOneShort(fields) ==
    LET perLabel == AxisLimit - 1 - AxisFirst
    IN  fields \o [k \in 1..(Len(AxisLabels) * perLabel) |->
                      AxisField(AxisLabels[((k - 1) \div perLabel) + 1],
                                AxisFirst + ((k - 1) % perLabel))]

\* "add multiple x and y axis".
AddAxes(fields) ==
    LET perLabel == AxisLimit - AxisFirst
    IN  fields \o [k \in 1..(Len(AxisLabels) * perLabel) |->
                      AxisField(AxisLabels[((k - 1) \div perLabel) + 1],
                                AxisFirst + ((k - 1) % perLabel))]

\* The orders in which the layout attributes of each trace may be visited.
TraceAttrOrders ==
    {f \in [DOMAIN schema.traces ->
               UNION {Orders(schema.traces[t].layoutAttributes) : t \in DOMAIN schema.traces}] :
        \A t \in DOMAIN schema.traces : f[t] \in Orders(schema.traces[t].layoutAttributes)}

\* lines 215-255: the type graph handed to the templates, given the parsed
\* file and what the two sorts left of its fields and of its enums.
LayoutFile(parsed, fields, enums) ==
    [parsed EXCEPT !.MainType.Fields = AddAxes(RemoveDuplicateFields(fields)),
                   !.Enums           = MergeDuplicateEnums(enums)]

\* lines 190-213: the file after every contributor was parsed, or the error.
ParsedLayout(ownOrder, order, attrOrder) ==
    LET own == parseAttributes(EmptyFile("Layout", "Plot layout options", <<>>),
                               "Layout", "Layout", ownOrder)
    IN  IF own.err THEN [file |-> own.file, err |-> TRUE]
        ELSE ParseTraceLayouts([own.file EXCEPT !.MainType.Fields = @ \o own.fields],
                               order, attrOrder)

NoHeader == [constant |-> "", value |-> ""]

WriteLayout ==
    /\ \E ownOrder \in Orders(schema.layout.layoutAttributes),
          order \in Orders(DOMAIN schema.traces),
          attrOrder \in TraceAttrOrders :
         LET parsed == ParsedLayout(ownOrder, order, attrOrder)
         IN  IF parsed.err
             THEN /\ werr' = "cannot parse attributes"
                  /\ UNCHANGED <<rendered, first>>
             ELSE /\ \E fields \in SortOutcomes(parsed.file.MainType.Fields),
                        enums \in SortOutcomes(parsed.file.Enums) :
                          rendered' = [target |-> "layout",
                                       header |-> NoHeader,
                                       file   |-> LayoutFile(parsed.file, fields, enums)]
                  /\ first' = FirstOfName(parsed.file.MainType.Fields)
                  /\ werr' = "nil"
    /\ UNCHANGED <<schema, sinkVars, nameVars>>

(***************************************************************************)
(* WriteTrace and WriteConfig.                                             *)
(***************************************************************************)
\* The discriminator field every trace's main type starts with.
TypeField == Field("Type", "type", "TraceType", "is the type of the plot")

\* traceName is a key of the trace map (for any other name the lookup yields
\* no trace to read Type from).
WriteTrace(traceName) ==
    /\ LET trace == schema.traces[traceName]
           name  == ToCamelCase(trace.Type)
       IN  \E order \in Orders(trace.attributes) :
             LET got == parseAttributes(EmptyFile(name, trace.description, <<TypeField>>),
                                        name, name, order)
             IN  IF got.err
                 THEN /\ werr' = "cannot parse attributes"
                      /\ UNCHANGED <<rendered, first>>
                 ELSE /\ rendered' =
                            [target |-> traceName,
                             header |-> [constant |-> "TraceType" \o name,
                                         value    |-> traceName],
                             file   |-> [got.file EXCEPT !.MainType.Fields = @ \o got.fields]]
                      /\ first' = FirstOfName(<<TypeField>> \o got.fields)
                      /\ werr' = "nil"
    /\ UNCHANGED <<schema, sinkVars, nameVars>>

WriteConfig ==
    /\ \E order \in Orders(schema.config) :
         LET got == parseAttributes(EmptyFile("Config", "Plot config options", <<>>),
                                    "Config", "Config", order)
         IN  IF got.err
             THEN /\ werr' = "cannot parse attributes"
                  /\ UNCHANGED <<rendered, first>>
             ELSE /\ rendered' =
                        [target |-> "config",
                         header |-> NoHeader,
                         file   |-> [got.file EXCEPT !.MainType.Fields = @ \o got.fields]]
                  /\ first' = FirstOfName(got.fields)
                  /\ werr' = "nil"
    /\ UNCHANGED <<schema, sinkVars, nameVars>>

(***************************************************************************)
(* The Create operations.  Each one renders into a buffer (WriteTrace...),  *)
(* formats the buffer (format.Source), asks the Creator for the file,      *)
(* writes the formatted text and closes the file on return.                *)
(***************************************************************************)
\* A text: the artifact it renders, whether it is syntactically valid Go, and
\* whether it is the output of format.Source.
Text(a, valid, formatted) == [artifact |-> a, valid |-> valid, formatted |-> formatted]

NoText == Text("", FALSE, FALSE)

\* A destination: the text written to it and whether all of it was written.
NoFile == [exists |-> FALSE, text |-> NoText, complete |-> FALSE]

Untouched == [created |-> FALSE, createFailed |-> FALSE, written |-> FALSE, closes |-> 0]

NoBatch ==
    [running |-> FALSE, names |-> <<>>, next |-> 1, err |-> "nil",
     created |-> {}, persisted |-> {}]

Dir == "graph_objects"

\* path.Join(dir, name + "_gen.go"); the fixed artifacts are layout, config
\* and unmarshal.
GenPath(dir, name) == dir \o "/" \o name \o "_gen.go"

FixedArtifacts == {"layout", "config", "unmarshal"}

SinkTraceNames == {"bar", "pie", "scatter"}

Paths == {GenPath(Dir, a) : a \in FixedArtifacts \cup SinkTraceNames}

\* sort.Strings over the keys of the trace map.
SortStrings(S) ==
    CHOOSE o \in Orders(S) : \A i, j \in DOMAIN o : i < j => StringLess(o[i], o[j])

\* Entering CreateTrace(dir, name), CreateLayout, CreateConfig or
\* CreateUnmarshal: an empty buffer, nothing asked of the Creator yet.
Enter(a) ==
    /\ pc' = "write"
    /\ artifact' = a
    /\ src' = NoText
    /\ fmtsrc' = NoText
    /\ io' = Untouched
    /\ err' = "nil"

\* A caller invokes one Create* operation on its own.
Create(a) ==
    /\ pc \in {"idle", "returned"}
    /\ ~batch.running
    /\ Enter(a)
    /\ UNCHANGED <<schema, graphVars, nameVars, sink, batch>>

\* err := r.Write*(src): the buffer is filled, or the operation returns the error.
RunWrite ==
    /\ pc = "write"
    /\ \/ \E valid \in BOOLEAN :
            /\ src' = Text(artifact, valid, FALSE)
            /\ pc' = "format"
            /\ UNCHANGED err
       \/ /\ err' = "write error"
          /\ pc' = "returned"
          /\ UNCHANGED src
    /\ UNCHANGED <<schema, graphVars, nameVars, artifact, fmtsrc, io, sink, batch>>

\* RunFormat with the error of format.Source dropped: the buffer is persisted
\* as it is.
RunFormatUnchecked ==
    /\ pc = "format"
    /\ fmtsrc' = src
    /\ pc' = "create"
    /\ UNCHANGED <<schema, graphVars, nameVars, artifact, src, io, err, sink, batch>>

\* fmtsrc, err := format.Source(src.Bytes()): a buffer that is not valid Go
\* makes the operation return "cannot format source".
RunFormat ==
    /\ pc = "format"
    /\ IF src.valid
       THEN /\ fmtsrc' = Text(src.artifact, TRUE, TRUE)
            /\ pc' = "create"
            /\ UNCHANGED err
       ELSE /\ err' = "cannot format source"
            /\ pc' = "returned"
            /\ UNCHANGED fmtsrc
    /\ UNCHANGED <<schema, graphVars, nameVars, artifact, src, io, sink, batch>>

\* file, err := r.fs.Create(path): the Creator hands out an empty destination,
\* or fails; defer file.Close() is registered only for a file it handed out.
RunCreate ==
    /\ pc = "create"
    /\ \/ /\ io' = [io EXCEPT !.created = TRUE]
          /\ sink' = [sink EXCEPT ![GenPath(Dir, artifact)] =
                         [exists |-> TRUE, text |-> NoText, complete |-> FALSE]]
          /\ batch' = IF batch.running
                      THEN [batch EXCEPT !.created = @ \cup {artifact}]
                      ELSE batch
          /\ pc' = "filewrite"
          /\ UNCHANGED err
       \/ /\ io' = [io EXCEPT !.createFailed = TRUE]
          /\ err' = "create error"
          /\ pc' = "returned"
          /\ UNCHANGED <<sink, batch>>
    /\ UNCHANGED <<schema, graphVars, nameVars, artifact, src, fmtsrc>>

\* _, err = file.Write(fmtsrc): all of the text arrives, or the write fails
\* after some of it did; both ways the deferred Close runs next.
RunFileWrite ==
    /\ pc = "filewrite"
    /\ \/ /\ sink' = [sink EXCEPT ![GenPath(Dir, artifact)] =
                         [exists |-> TRUE, text |-> fmtsrc, complete |-> TRUE]]
          /\ UNCHANGED err
       \/ /\ \E some \in {NoText, fmtsrc} :
                sink' = [sink EXCEPT ![GenPath(Dir, artifact)] =
                            [exists |-> TRUE, text |-> some, complete |-> FALSE]]
          /\ err' = "cannot write source"
    /\ io' = [io EXCEPT !.written = TRUE]
    /\ pc' = "close"
    /\ UNCHANGED <<schema, graphVars, nameVars, artifact, src, fmtsrc, batch>>

\* RunClose with the Close at the end of the function instead of deferred: a
\* failed Write returns without it.
RunCloseOnSuccess ==
    /\ pc = "close"
    /\ io' = [io EXCEPT !.closes = IF err = "nil" THEN @ + 1 ELSE @]
    /\ batch' = IF batch.running /\ err = "nil"
                THEN [batch EXCEPT !.persisted = @ \cup {artifact}]
                ELSE batch
    /\ pc' = "returned"
    /\ UNCHANGED <<schema, graphVars, nameVars, artifact, src, fmtsrc, err, sink>>

\* The deferred file.Close(), then the return.
RunClose ==
    /\ pc = "close"
    /\ io' = [io EXCEPT !.closes = @ + 1]
    /\ batch' = IF batch.running /\ err = "nil"
                THEN [batch EXCEPT !.persisted = @ \cup {artifact}]
                ELSE batch
    /\ pc' = "returned"
    /\ UNCHANGED <<schema, graphVars, nameVars, artifact, src, fmtsrc, err, sink>>

\* CreateTraces(dir): the names of the trace map, sorted.
CreateTraces ==
    /\ pc \in {"idle", "returned"}
    /\ ~batch.running
    /\ batch' = [running |-> TRUE, names |-> SortStrings(DOMAIN schema.traces),
                 next |-> 1, err |-> "nil", created |-> {}, persisted |-> {}]
    /\ pc' = "idle"
    /\ UNCHANGED <<schema, graphVars, nameVars, artifact, src, fmtsrc, io, err, sink>>

\* CreateTracesLoop with the error of CreateTrace dropped: the loop goes on.
CreateTracesLoopOn ==
    /\ batch.running
    /\ pc \in {"idle", "returned"}
    /\ IF batch.next <= Len(batch.names)
       THEN /\ Enter(batch.names[batch.next])
            /\ batch' = [batch EXCEPT !.next = @ + 1]
       ELSE /\ batch' = [batch EXCEPT !.running = FALSE]
            /\ pc' = "idle"
            /\ UNCHANGED <<artifact, src, fmtsrc, io, err>>
    /\ UNCHANGED <<schema, graphVars, nameVars, sink>>

\* One turn of CreateTraces' loop: the first CreateTrace that returned an error
\* ends the loop with "cannot create trace"; otherwise the next name is
\* created, and after the last one CreateTraces returns nil.
CreateTracesLoop ==
    /\ batch.running
    /\ pc \in {"idle", "returned"}
    /\ IF pc = "returned" /\ err # "nil"
       THEN /\ batch' = [batch EXCEPT !.running = FALSE, !.err = "cannot create trace"]
            /\ pc' = "idle"
            /\ UNCHANGED <<artifact, src, fmtsrc, io, err>>
       ELSE IF batch.next <= Len(batch.names)
       THEN /\ Enter(batch.names[batch.next])
            /\ batch' = [batch EXCEPT !.next = @ + 1]
       ELSE /\ batch' = [batch EXCEPT !.running = FALSE]
            /\ pc' = "idle"
            /\ UNCHANGED <<artifact, src, fmtsrc, io, err>>
    /\ UNCHANGED <<schema, graphVars, nameVars, sink>>

SinkIdle ==
    /\ pc = "idle"
    /\ artifact = ""
    /\ src = NoText
    /\ fmtsrc = NoText
    /\ io = Untouched
    /\ err = "nil"
    /\ sink = [p \in Paths |-> NoFile]
    /\ batch = NoBatch

(***************************************************************************)
(* cleanName.  A string is the sequence of its characters.                 *)
(***************************************************************************)
\* symbolMap: the arguments of strings.NewReplacer, old1, new1, old2, new2, ...
symbolMap ==
    << "=",  <<"E", "q">>,
       ">",  <<"G", "t">>,
       "-",  <<"H", "y", "p", "h", "e", "n">>,
       "<",  <<"L", "t">>,
       "|",  <<"O", "r">>,
       "/",  <<"S", "l", "a", "s", "h">>,
       "\\", <<"D", "o", "u", "b", "l", "e", "b", "a", "c", "k", "s", "l", "a", "s", "h">>,
       "^",  <<"C", "a", "p", "e">>,
       "(",  <<"L", "p", "a", "r">>,
       ")",  <<"R", "p", "a", "r">>,
       "[",  <<"L", "b", "r", "a", "c", "k", "e", "t">>,
       "]",  <<"R", "b", "r", "a", "c", "k", "e", "t">>,
       "+",  <<"P", "l", "u", "s">>,
       "?",  <<"Q", "u", "e", "s", "t", "i", "o", "n">>,
       "$",  <<"D", "o", "l", "l", "a", "r">> >>

\* The pairs of the replacer whose old string is the character c.
Matching(c) == {k \in 1..(Len(symbolMap) \div 2) : symbolMap[2 * k - 1] = c}

\* Replacer.Replace from position i on: the character at i is replaced by the
\* new string of the first pair that matches it, or copied, and the scan goes
\* on behind it in the input.
RECURSIVE ReplaceFrom(_, _)
ReplaceFrom(name, i) ==
    IF i > Len(name) THEN <<>>
    ELSE LET hits == Matching(name[i])
             out  == IF hits = {} THEN <<name[i]>>
                     ELSE symbolMap[2 * (CHOOSE k \in hits : \A h \in hits : k <= h)]
         IN  out \o ReplaceFrom(name, i + 1)

\* cleanName with the replacement stopping after the first symbol it replaced.
cleanNameFirstOnly(name) ==
    IF \E i \in DOMAIN name : Matching(name[i]) # {}
    THEN LET i == CHOOSE i \in DOMAIN name :
                      /\ Matching(name[i]) # {}
                      /\ \A j \in 1..(i - 1) : Matching(name[j]) = {}
         IN  SubSeq(name, 1, i - 1)
                 \o symbolMap[2 * (CHOOSE k \in Matching(name[i]) : TRUE)]
                 \o SubSeq(name, i + 1, Len(name))
    ELSE name

cleanName(name) == ReplaceFrom(name, 1)

\* strings.ReplaceAll(value, old, new) for a one-character old, from position
\* i on: every occurrence of old is replaced by new, left to right, and the
\* scan goes on behind the occurrence in the input.
RECURSIVE ReplaceAllFrom(_, _, _, _)
ReplaceAllFrom(value, old, new, i) ==
    IF i > Len(value) THEN <<>>
    ELSE (IF value[i] = old THEN new ELSE <<value[i]>>)
             \o ReplaceAllFrom(value, old, new, i + 1)

\* cleanValue with only the first backslash doubled.
cleanValueFirstOnly(value) ==
    IF \E i \in DOMAIN value : value[i] = "\\"
    THEN LET i == CHOOSE i \in DOMAIN value :
                      /\ value[i] = "\\"
                      /\ \A j \in 1..(i - 1) : value[j] # "\\"
         IN  SubSeq(value, 1, i - 1) \o <<"\\", "\\">>
                 \o SubSeq(value, i + 1, Len(value))
    ELSE value

cleanValue(value) == ReplaceAllFrom(value, "\\", <<"\\", "\\">>, 1)

\* The characters of the raw values: the symbols of the table, a lower-case
\* and an upper-case letter.
Alphabet ==
    {"=", ">", "-", "<", "|", "/", "\\", "^", "(", ")", "[", "]", "+", "?", "$", "a", "E"}

RawValues == UNION {[1..n -> Alphabet] : n \in 0..MaxLen}

CleanName ==
    /\ applied = "none"
    /\ applied' = "cleanName"
    /\ cleaned' = cleanName(raw)
    /\ UNCHANGED <<schema, graphVars, sinkVars, raw>>

CleanValue ==
    /\ applied = "none"
    /\ applied' = "cleanValue"
    /\ cleaned' = cleanValue(raw)
    /\ UNCHANGED <<schema, graphVars, sinkVars, raw>>

NameIdle ==
    /\ raw = <<>>
    /\ applied = "none"
    /\ cleaned = <<>>

(***************************************************************************)
(* The specification of the layout target.                                 *)
(***************************************************************************)
Trace(type, attrs, layoutAttrs) ==
    [Type |-> type, description |-> type \o " trace",
     attributes |-> attrs, layoutAttributes |-> layoutAttrs]

NothingRendered == [target |-> "none", header |-> NoHeader, file |-> EmptyFile("", "", <<>>)]

Init ==
    /\ \E own \in AttrSets, contributed \in [TraceNames -> AttrSets] :
         /\ Cardinality(own) + Cardinality(contributed["bar"])
                + Cardinality(contributed["scatter"]) <= MaxAttrs
         /\ schema = [layout |-> [layoutAttributes |-> own],
                       traces |-> [t \in TraceNames |-> Trace(t, {}, contributed[t])],
                       config |-> {}]
    /\ rendered = NothingRendered
    /\ first = {}
    /\ werr = "nil"
    /\ SinkIdle
    /\ NameIdle

Next == WriteLayout

Spec == Init /\ [][Next]_vars

(***************************************************************************)
(* The specification of the trace and config targets: every bounded schema *)
(* of trace attributes, type tags and config attributes.                   *)
(***************************************************************************)
InitTrace ==
    /\ \E type \in [TraceNames -> TraceNames],
          attrs \in [TraceNames -> AttrSets], config \in AttrSets :
         /\ Cardinality(config) + Cardinality(attrs["bar"])
                + Cardinality(attrs["scatter"]) <= MaxAttrs
         /\ schema = [layout |-> [layoutAttributes |-> {}],
                       traces |-> [t \in TraceNames |-> Trace(type[t], attrs[t], {})],
                       config |-> config]
    /\ rendered = NothingRendered
    /\ first = {}
    /\ werr = "nil"
    /\ SinkIdle
    /\ NameIdle

NextTrace ==
    \/ \E traceName \in DOMAIN schema.traces : WriteTrace(traceName)
    \/ WriteConfig

SpecTrace == InitTrace /\ [][NextTrace]_vars

(***************************************************************************)
(* The specification of the Create* operations: every set of trace names,  *)
(* every outcome of rendering, formatting, Create and Write.               *)
(***************************************************************************)
InitSink ==
    /\ \E names \in SUBSET SinkTraceNames :
         schema = [layout |-> [layoutAttributes |-> {}],
                   traces |-> [t \in names |-> Trace(t, {}, {})],
                   config |-> {}]
    /\ rendered = NothingRendered
    /\ first = {}
    /\ werr = "nil"
    /\ SinkIdle
    /\ NameIdle

NextSink ==
    \/ \E a \in FixedArtifacts \cup DOMAIN schema.traces : Create(a)
    \/ CreateTraces
    \/ CreateTracesLoop
    \/ RunWrite
    \/ RunFormat
    \/ RunCreate
    \/ RunFileWrite
    \/ RunClose

SpecSink == InitSink /\ [][NextSink]_vars

(***************************************************************************)
(* The specification of cleanName and cleanValue: every raw value of at    *)
(* most MaxLen characters, cleaned by one of the two.                      *)
(***************************************************************************)
InitName ==
    /\ schema = [layout |-> [layoutAttributes |-> {}],
                 traces |-> [t \in {} |-> Trace(t, {}, {})],
                 config |-> {}]
    /\ rendered = NothingRendered
    /\ first = {}
    /\ werr = "nil"
    /\ SinkIdle
    /\ raw \in RawValues
    /\ applied = "none"
    /\ cleaned = <<>>

NextName ==
    \/ CleanName
    \/ CleanValue

SpecName == InitName /\ [][NextName]_vars


(***************************************************************************)
(* The layout target: what the contributors declare.                       *)
(***************************************************************************)
\* The attribute sets of the layout's contributors: the layout itself and
\* every trace.
LayoutContributions ==
    {schema.layout.layoutAttributes}
        \cup {schema.traces[t].layoutAttributes : t \in DOMAIN schema.traces}

LayoutAttrs == UNION LayoutContributions

LayoutRendered == rendered.target = "layout"

MainFields == rendered.file.MainType.Fields

\* The positions of s whose entry is named n.
Named(s, n) == {i \in DOMAIN s : s[i].Name = n}

NoRepeat(s) == \A i, j \in DOMAIN s : s[i] = s[j] => i = j

\* The enum Name a contributed enumerated attribute is registered under.
LayoutEnumName(a) == "Layout" \o ToCamelCase(a.name)

ContributedEnums == {a \in LayoutAttrs : a.valType = "enumerated"}

ContributedValues(name) ==
    UNION {Range(a.values) : a \in {b \in ContributedEnums : LayoutEnumName(b) = name}}

\* C1 (as claimed): every contributed enum Name has exactly one enumFile in the
\* rendered layout, whose raw values are the union of the contributed value
\* lists, none of them listed twice.
C1_EnumUnionWithoutDuplicates ==
    LayoutRendered =>
        \A a \in ContributedEnums :
            LET name == LayoutEnumName(a)
                at   == Named(rendered.file.Enums, name)
            IN  /\ Cardinality(at) = 1
                /\ \A i \in at :
                     /\ Range(rendered.file.Enums[i].Values) = ContributedValues(name)
                     /\ NoRepeat(rendered.file.Enums[i].Values)

\* C2 (as claimed): regenerating the layout from the unchanged schema hands
\* the templates the same type graph as the run before.
C2_RegenerationIsIdentical ==
    [][(LayoutRendered /\ rendered'.target = "layout") => rendered' = rendered]_vars

\* C5 (as claimed): of the fields contributed under one Name, the Layout main
\* type keeps the one contributed first (Type, JSONName and Description).
C5_FirstContributedFieldWins ==
    LayoutRendered =>
        \A f \in first : \E k \in DOMAIN MainFields : MainFields[k] = f

\* C6 (as claimed): in the rendered Layout main type every contributed field
\* Name appears, and no Name appears twice, the axis fields included.
C6_FieldNamesUniqueAndComplete ==
    LayoutRendered =>
        /\ \A a \in LayoutAttrs : Named(MainFields, ToCamelCase(a.name)) # {}
        /\ \A i, j \in DOMAIN MainFields :
               MainFields[i].Name = MainFields[j].Name => i = j


\* The rendered fields of an axis family: the base key and its suffixed keys.
AxisKey(label, k) == ToLower(label) \o "axis" \o (IF k = 1 THEN "" ELSE ToString(k))

AxisFamily(label, ks) ==
    {i \in DOMAIN MainFields : \E k \in ks : MainFields[i].JSONName = AxisKey(label, k)}

\* C7 (as claimed): each family has its base field and exactly 5 additional
\* fields, suffixed 2..6 and typed like the base field: 12 axis fields.
C7_TwelveAxisFields ==
    LayoutRendered =>
        /\ \A label \in {"X", "Y"} :
             /\ Cardinality(AxisFamily(label, {1})) = 1
             /\ Cardinality(AxisFamily(label, 2..6)) = 5
             /\ \A i \in AxisFamily(label, 2..6), b \in AxisFamily(label, {1}) :
                    MainFields[i].Type = MainFields[b].Type
        /\ Cardinality(AxisFamily("X", 1..6) \cup AxisFamily("Y", 1..6)) = 12

\* Some contributor declares the base key of the family, and every
\* contributor that declares it declares an object.
BaseDeclaredAsObject(label) ==
    /\ \E a \in LayoutAttrs : a.name = AxisKey(label, 1)
    /\ \A a \in LayoutAttrs : a.name = AxisKey(label, 1) => a.valType = "object"

\* C7 (amended): each family has exactly one additional field per suffix
\* 2..6, with JSONName the lower-cased base key followed by the suffix and
\* Type Layout<label>axis; where the schema declares the base key as an
\* object, the base field is there once, with that same Type: 6 in the family.
C7_TenAddedAxisFields ==
    LayoutRendered =>
        \A label \in {"X", "Y"} :
            /\ \A k \in 2..6 :
                 /\ Cardinality(AxisFamily(label, {k})) = 1
                 /\ \A i \in AxisFamily(label, {k}) :
                      /\ MainFields[i].Type = "Layout" \o label \o "axis"
                      /\ MainFields[i].Name = label \o "Axis" \o ToString(k)
            /\ BaseDeclaredAsObject(label) =>
                 /\ Cardinality(AxisFamily(label, {1})) = 1
                 /\ Cardinality(AxisFamily(label, 1..6)) = 6
                 /\ \A i \in AxisFamily(label, 2..6), b \in AxisFamily(label, {1}) :
                        MainFields[i].Type = MainFields[b].Type

\* C7 witness: a layout rendered from a schema that declares both base keys
\* carries the 12 axis fields.
C7_Witness ==
    /\ LayoutRendered
    /\ BaseDeclaredAsObject("X")
    /\ BaseDeclaredAsObject("Y")
    /\ Cardinality(AxisFamily("X", 1..6) \cup AxisFamily("Y", 1..6)) = 12

(***************************************************************************)
(* The trace target.                                                       *)
(***************************************************************************)
TraceRendered == rendered.target \in TraceNames

\* C9 (as claimed): the main type of a rendered trace starts with the
\* discriminator field, holds no second field named Type, and the constant
\* TraceType<MainTypeName> carries the type tag the name was derived from.
C9_DiscriminatorAndTypeTag ==
    TraceRendered =>
        /\ MainFields[1] = TypeField
        /\ Cardinality(Named(MainFields, "Type")) = 1
        /\ rendered.header.constant = "TraceType" \o rendered.file.MainType.Name
        /\ rendered.file.MainType.Name = ToCamelCase(schema.traces[rendered.target].Type)
        /\ rendered.header.value = schema.traces[rendered.target].Type


(***************************************************************************)
(* The Create operations.                                                  *)
(***************************************************************************)
CreateCalled == io.created \/ io.createFailed

\* C3: Create is called only once the Write step returned no error and
\* format.Source accepted the whole buffer; an operation whose rendering or
\* syntax check failed returns an error with neither Create nor Write called;
\* and a destination only ever holds formatted output of a passed check, of
\* its own artifact.
C3_SyntaxCheckPrecedesPersistence ==
    /\ (CreateCalled \/ io.written) =>
           /\ src = Text(artifact, TRUE, FALSE)
           /\ fmtsrc = Text(artifact, TRUE, TRUE)
    /\ (pc = "returned" /\ (src = NoText \/ ~src.valid)) =>
           /\ err # "nil"
           /\ io = Untouched
    /\ \A a \in FixedArtifacts \cup SinkTraceNames :
           LET dest == sink[GenPath(Dir, a)]
           IN  (dest.exists /\ dest.text # NoText) => dest.text = Text(a, TRUE, TRUE)

\* C3 witness: an operation whose buffer failed the syntax check has returned.
C3_Witness ==
    /\ pc = "returned"
    /\ src # NoText
    /\ ~src.valid
    /\ err = "cannot format source"
    /\ \E p \in Paths : sink[p].complete

BatchFailed == ~batch.running /\ batch.err # "nil"

BatchDone == ~batch.running /\ batch.err = "nil"

\* C4 (as claimed): a CreateTraces that returned an error created nothing for
\* a later name and left no trace artifact of its own in the sink.
C4_NoPartialSetPersisted ==
    BatchFailed =>
        /\ \A i \in DOMAIN batch.names : i >= batch.next => batch.names[i] \notin batch.created
        /\ batch.persisted = {}

\* C4 (amended): CreateTraces takes the trace names in lexicographic order;
\* when the creation of one fails it returns an error, has created nothing
\* for a later name, and the artifacts of all earlier names stay persisted;
\* a CreateTraces that returned nil persisted every trace.
C4_AbortsOnFirstFailure ==
    /\ \A i, j \in DOMAIN batch.names : i < j => StringLess(batch.names[i], batch.names[j])
    /\ (batch.running \/ BatchFailed \/ batch.names # <<>>) =>
           Range(batch.names) = DOMAIN schema.traces
    /\ BatchFailed =>
           LET failed == batch.next - 1
           IN  /\ failed \in DOMAIN batch.names
               /\ batch.persisted = {batch.names[i] : i \in 1..(failed - 1)}
               /\ batch.created \subseteq {batch.names[i] : i \in 1..failed}
    /\ BatchDone => batch.persisted = Range(batch.names)

\* C4 witness: CreateTraces failed at a name that is neither the first nor the
\* last one.
C4_Witness ==
    /\ BatchFailed
    /\ batch.persisted # {}
    /\ batch.next <= Len(batch.names)

\* C8: a file the Creator handed out is closed exactly once when the
\* operation that asked for it has returned, whether its Write succeeded or
\* failed, and never more than once; a failed Create or Write makes the
\* operation return an error, and a failed Create leaves nothing to close.
C8_ClosedExactlyOnce ==
    /\ io.closes <= 1
    /\ io.closes = 1 => io.created
    /\ pc = "returned" =>
           /\ io.created => io.closes = 1
           /\ io.createFailed => (err # "nil" /\ io.closes = 0 /\ ~io.created)
           /\ (io.written /\ ~sink[GenPath(Dir, artifact)].complete) => err # "nil"

\* C8 witness: an operation whose Write failed has returned, its file closed.
C8_Witness ==
    /\ pc = "returned"
    /\ io.written
    /\ err = "cannot write source"
    /\ io.closes = 1

(***************************************************************************)
(* cleanName.                                                              *)
(***************************************************************************)
\* The symbols of the substitution table.
TableSymbols ==
    {"=", ">", "-", "<", "|", "/", "\\", "^", "(", ")", "[", "]", "+", "?", "$"}

\* The word of a table symbol.
WordOf(c) == symbolMap[2 * (CHOOSE k \in Matching(c) : TRUE)]

\* s with every table symbol spelled out as its word and every other
\* character as it is.
RECURSIVE Expand(_)
Expand(s) ==
    IF s = <<>> THEN <<>>
    ELSE (IF Head(s) \in TableSymbols THEN WordOf(Head(s)) ELSE <<Head(s)>>) \o Expand(Tail(s))

\* C10: cleanName replaces every table symbol of its input by the symbol's
\* word, keeps every other character, in order, and leaves no table symbol
\* in its result.
C10_CleanNameSubstitutesOnce ==
    applied = "cleanName" =>
        /\ cleaned = Expand(raw)
        /\ \A i \in DOMAIN cleaned : cleaned[i] \notin TableSymbols
        /\ (raw = <<"a", "-">>) => cleaned = <<"a", "H", "y", "p", "h", "e", "n">>

\* C10 witness: a value with two table symbols was cleaned.
C10_Witness ==
    /\ applied = "cleanName"
    /\ Len(raw) = 2
    /\ \A i \in DOMAIN raw : raw[i] \in TableSymbols
    /\ raw[1] # raw[2]

(***************************************************************************)
(* cleanValue: the payload of a string literal.                            *)
(***************************************************************************)
\* The number of backslashes of a string.
Backslashes(s) == Cardinality({i \in DOMAIN s : s[i] = "\\"})

\* A string-literal payload read back from position i on: a pair of
\* backslashes is read as one backslash, every other character as itself.
RECURSIVE DecodeFrom(_, _)
DecodeFrom(s, i) ==
    IF i > Len(s) THEN <<>>
    ELSE IF s[i] = "\\" /\ i < Len(s) /\ s[i + 1] = "\\"
         THEN <<"\\">> \o DecodeFrom(s, i + 2)
         ELSE <<s[i]>> \o DecodeFrom(s, i + 1)

\* Every character of s doubled if it is a backslash, kept otherwise.
RECURSIVE Doubled(_)
Doubled(s) ==
    IF s = <<>> THEN <<>>
    ELSE (IF Head(s) = "\\" THEN <<"\\", "\\">> ELSE <<Head(s)>>) \o Doubled(Tail(s))

\* C11: cleanValue doubles each backslash of the raw value and changes
\* nothing else, so the result is longer by the number of backslashes,
\* reading each pair of backslashes of the result as one gives the raw value
\* back, and no symbol is replaced by an identifier word: a raw value without
\* a backslash is returned unchanged, whatever cleanName makes of it.
C11_CleanValueRoundTrips ==
    applied = "cleanValue" =>
        /\ cleaned = Doubled(raw)
        /\ Len(cleaned) = Len(raw) + Backslashes(raw)
        /\ DecodeFrom(cleaned, 1) = raw
        /\ Backslashes(raw) = 0 => cleaned = raw
        /\ (raw = <<"\\">>) => cleaned = <<"\\", "\\">>

\* C11 witness: a value of two backslashes was cleaned into four, and a value
\* that cleanName would rewrite is in reach of cleanValue.
C11_Witness ==
    /\ applied = "cleanValue"
    /\ raw = <<"\\", "\\">>
    /\ cleaned = <<"\\", "\\", "\\", "\\">>
    /\ cleanName(raw) # cleaned

(***************************************************************************)
(* The order of the lists handed to rendering.                             *)
(***************************************************************************)
\* A list is in lexicographic order of Name: no entry sorts before the one
\* in front of it.
InNameOrder(list) ==
    \A i \in 1..(Len(list) - 1) : ~Less(list[i + 1], list[i])

\* C12 (as claimed): in every type graph handed to rendering, by WriteLayout
\* after deduplication, enum merge and axis fix-up, by WriteTrace and by
\* WriteConfig, the MainType fields are in lexicographic order of their
\* identifier and the Enums in lexicographic order of their Name.
C12_RenderedListsAreSorted ==
    rendered.target # "none" =>
        /\ InNameOrder(MainFields)
        /\ InNameOrder(rendered.file.Enums)

(***************************************************************************)
(* The names of the generated types of the layout target.                  *)
(***************************************************************************)
\* C13 (as claimed): in the type graph WriteLayout hands to rendering, no two
\* entries of Objects share a Name and no entry of Objects is named like the
\* MainType, also when several contributors declare the same object-valued
\* layout attribute.
C13_ObjectNamesUnique ==
    LayoutRendered =>
        /\ \A n \in {rendered.file.Objects[i].Name : i \in DOMAIN rendered.file.Objects} :
               Cardinality(Named(rendered.file.Objects, n)) = 1
        /\ Named(rendered.file.Objects, rendered.file.MainType.Name) = {}

====
